---- MODULE Spec2Model ----
(***************************************************************************)
(* The discovery and ranking engine of the spiritual literature search:    *)
(* POST /api/search (server/routes.ts) calls searchBooksWithAI             *)
(* (server/aiSearch.ts), which fans out to the curated catalog, to Google  *)
(* Books (server/googleBooks.ts) and to the web search                     *)
(* (server/webSearch.ts: Open Library in parallel with Amazon, Goodreads   *)
(* and Project Gutenberg in sequence), pools the candidates, asks the      *)
(* evaluator (Gemini) to score them and falls back to a keyword scorer     *)
(* when the evaluator call or the parsing of its answer fails.             *)
(*                                                                         *)
(* JavaScript strings are TLA+ strings; arrays are sequences.              *)
(*                                                                         *)
(* Spec is one search request from POST to response.  ScorerSpec starts    *)
(* where the evaluator is called, on pools larger than the requests of     *)
(* Spec collect; InterpreterSpec runs the query interpreter of searchWeb   *)
(* on a family of queries; DedupSpec runs deduplicateBooks of searchWeb on  *)
(* short lists of books; ListSpec is GET /api/books; PairSpec is two       *)
(* search requests in flight at once.                                      *)
(***************************************************************************)
EXTENDS Integers, Sequences, FiniteSets, TLC

(***************************************************************************)
(* Bounds of the model.                                                    *)
(***************************************************************************)
\* longest list of matches in an evaluator answer
MaxMatches == 2
\* longest evaluator answer, in lexical pieces (see Pieces)
MaxPieces == 3

(***************************************************************************)
(* String helpers: the JavaScript string methods the code uses.            *)
(***************************************************************************)
UpperChars == <<"A","B","C","D","E","F","G","H","I","J","K","L","M",
                "N","O","P","Q","R","S","T","U","V","W","X","Y","Z">>

LowerChars == <<"a","b","c","d","e","f","g","h","i","j","k","l","m",
                "n","o","p","q","r","s","t","u","v","w","x","y","z">>

DigitChars == <<"0","1","2","3","4","5","6","7","8","9">>

charAt(s, i) == SubSeq(s, i, i)

UpperSet == {UpperChars[i] : i \in 1..Len(UpperChars)}

lowerOf ==
  [c \in UpperSet |-> LowerChars[CHOOSE i \in 1..Len(UpperChars) : UpperChars[i] = c]]

toLowerChar(c) == IF c \in UpperSet THEN lowerOf[c] ELSE c

\* String.prototype.toLowerCase, character by character (by halves, which
\* keeps the recursion shallow)
RECURSIVE toLowerCase(_)
toLowerCase(s) ==
  IF Len(s) <= 1 THEN toLowerChar(s)
  ELSE toLowerCase(SubSeq(s, 1, Len(s) \div 2))
         \o toLowerCase(SubSeq(s, Len(s) \div 2 + 1, Len(s)))

\* String.prototype.includes
includes(s, w) ==
  \E i \in 1..(Len(s) - Len(w) + 1) : SubSeq(s, i, i + Len(w) - 1) = w

\* \s of the regular expressions
isSpace(c) == c \in {" ", "\t", "\n"}

\* \w of the regular expressions
WordCharSet ==
  UpperSet \cup {LowerChars[i] : i \in 1..Len(LowerChars)}
    \cup {DigitChars[i] : i \in 1..Len(DigitChars)} \cup {"_"}

isWordChar(c) == c \in WordCharSet

RECURSIVE trimStart(_)
trimStart(s) ==
  IF s # "" /\ isSpace(charAt(s, 1)) THEN trimStart(SubSeq(s, 2, Len(s))) ELSE s

RECURSIVE trimEnd(_)
trimEnd(s) ==
  IF s # "" /\ isSpace(charAt(s, Len(s)))
  THEN trimEnd(SubSeq(s, 1, Len(s) - 1)) ELSE s

trim(s) == trimEnd(trimStart(s))

\* s.split(/\s+/): cur is the piece being read, inGap tells that the last
\* character was white space
RECURSIVE splitWs(_, _, _)
splitWs(s, cur, inGap) ==
  IF s = "" THEN <<cur>>
  ELSE IF isSpace(charAt(s, 1))
       THEN IF inGap THEN splitWs(SubSeq(s, 2, Len(s)), cur, TRUE)
            ELSE <<cur>> \o splitWs(SubSeq(s, 2, Len(s)), "", TRUE)
       ELSE splitWs(SubSeq(s, 2, Len(s)), cur \o charAt(s, 1), FALSE)

split(s) == splitWs(s, "", FALSE)

\* Array.prototype.join
RECURSIVE join(_, _)
join(arr, sep) ==
  IF arr = <<>> THEN ""
  ELSE IF Len(arr) = 1 THEN arr[1]
  ELSE arr[1] \o sep \o join(Tail(arr), sep)

\* s.replace(pat, rep) with a string pattern: the first occurrence only
replaceFirst(s, pat, rep) ==
  IF includes(s, pat)
  THEN LET i == CHOOSE k \in 1..(Len(s) - Len(pat) + 1) :
                  /\ SubSeq(s, k, k + Len(pat) - 1) = pat
                  /\ \A j \in 1..(k - 1) : SubSeq(s, j, j + Len(pat) - 1) # pat
       IN SubSeq(s, 1, i - 1) \o rep \o SubSeq(s, i + Len(pat), Len(s))
  ELSE s

\* \b between positions i-1 and i of s
wordBoundary(s, i) ==
  LET before == i > 1 /\ isWordChar(charAt(s, i - 1))
      after  == i <= Len(s) /\ isWordChar(charAt(s, i))
  IN before # after

\* length of the match of /\bW\b/i at position i of s, 0 when there is none
wordAt(s, i, w) ==
  IF /\ i + Len(w) - 1 <= Len(s)
     /\ toLowerCase(SubSeq(s, i, i + Len(w) - 1)) = w
     /\ wordBoundary(s, i)
     /\ wordBoundary(s, i + Len(w))
  THEN Len(w) ELSE 0

\* s.replace(/\bW1\b|\bW2\b|.../gi, ""): ws lists the alternatives in the
\* order in which the regular expression tries them
firstWordAt(s, i, ws) ==
  IF \E k \in 1..Len(ws) : wordAt(s, i, ws[k]) > 0
  THEN wordAt(s, i, ws[CHOOSE k \in 1..Len(ws) :
                          /\ wordAt(s, i, ws[k]) > 0
                          /\ \A j \in 1..(k - 1) : wordAt(s, i, ws[j]) = 0])
  ELSE 0

RECURSIVE removeWordsFrom(_, _, _)
removeWordsFrom(s, i, ws) ==
  IF i > Len(s) THEN ""
  ELSE IF firstWordAt(s, i, ws) > 0
       THEN removeWordsFrom(s, i + firstWordAt(s, i, ws), ws)
       ELSE charAt(s, i) \o removeWordsFrom(s, i + 1, ws)

removeWords(s, ws) == removeWordsFrom(s, 1, ws)

\* arr.slice(0, n)
slice(arr, n) == SubSeq(arr, 1, IF n < Len(arr) THEN n ELSE Len(arr))

\* a sort that is not stable: equal keys come out in reverse
sortOrderUnstable(keys) ==
  LET ks == SubSeq(keys, 1, Len(keys))
  IN [r \in 1..Len(ks) |->
        CHOOSE i \in 1..Len(ks) :
          Cardinality({j \in 1..Len(ks) : ks[j] > ks[i]})
            + Cardinality({j \in (i + 1)..Len(ks) : ks[j] = ks[i]}) + 1 = r]

\* the order in which arr.sort((a, b) => key(b) - key(a)) leaves the indices
\* of arr, keys[i] being the key of arr[i]: descending, and stable (ES2019)
sortOrder(keys) ==
  LET ks == SubSeq(keys, 1, Len(keys))
  IN [r \in 1..Len(ks) |->
        CHOOSE i \in 1..Len(ks) :
          Cardinality({j \in 1..Len(ks) : ks[j] > ks[i]})
            + Cardinality({j \in 1..(i - 1) : ks[j] = ks[i]}) + 1 = r]

\* s.split(/[,\-:|]/) (the en dash of the source's character class is left
\* out: no query of the model contains one)
\* a character class without the pipe
isSeparatorNoPipe(c) == c \in {",", "-", ":"}

isSeparator(c) == c \in {",", "-", ":", "|"}

RECURSIVE splitSep(_, _)
splitSep(s, cur) ==
  IF s = "" THEN <<cur>>
  ELSE IF isSeparator(charAt(s, 1))
       THEN <<cur>> \o splitSep(SubSeq(s, 2, Len(s)), "")
       ELSE splitSep(SubSeq(s, 2, Len(s)), cur \o charAt(s, 1))

nonEmpty(x) == x # ""

\* s.indexOf(w), 1-based; 0 when w does not occur
indexOf(s, w) ==
  IF includes(s, w)
  THEN CHOOSE k \in 1..(Len(s) - Len(w) + 1) :
         /\ SubSeq(s, k, k + Len(w) - 1) = w
         /\ \A j \in 1..(k - 1) : SubSeq(s, j, j + Len(w) - 1) # w
  ELSE 0

\* s.lastIndexOf(" ", from), 1-based; 0 when there is none at or before from
lastSpaceUpTo(s, from) ==
  IF \E k \in 1..from : k <= Len(s) /\ charAt(s, k) = " "
  THEN CHOOSE k \in 1..from :
         /\ k <= Len(s) /\ charAt(s, k) = " "
         /\ \A j \in (k + 1)..from : j > Len(s) \/ charAt(s, j) # " "
  ELSE 0

startsWith(s, w) == Len(w) <= Len(s) /\ SubSeq(s, 1, Len(w)) = w

(***************************************************************************)
(* The query interpreter (server/webSearch.ts).  An unset author is the    *)
(* empty sequence, a set one a sequence of one string.                     *)
(***************************************************************************)
topicKeywords ==
  <<"meditation", "yoga", "tantra", "vedanta", "buddhism", "zen",
    "mindfulness", "chakra", "kundalini", "advaita", "non-duality",
    "sufism", "mysticism", "biography", "philosophy">>

seriesIndicators == <<"sri", "vidya", "gita", "upanishad", "sutra", "yoga">>

knownAuthors ==
  <<"osho", "sadhguru", "krishnamurti", "ramana", "vivekananda", "aurobindo">>

\* a series-indicator branch that returns without testing authorPart
seriesSplitLoose(cleaned, lowerQuery, ind) ==
  IF ~includes(lowerQuery, ind) THEN <<>>
  ELSE LET idx        == indexOf(lowerQuery, ind)
           titleStart == lastSpaceUpTo(lowerQuery, idx)
           titlePart  == trim(SubSeq(cleaned, titleStart, Len(cleaned)))
           rawAuthor  == SubSeq(cleaned, 1, titleStart - 1)
           cutAuthor  == IF rawAuthor # "" /\ isSeparator(charAt(rawAuthor, Len(rawAuthor)))
                         THEN SubSeq(rawAuthor, 1, Len(rawAuthor) - 1)
                         ELSE rawAuthor
           authorPart == trim(cutAuthor)
       IN IF titleStart # 0 /\ titlePart # ""
          THEN <<[author |-> authorPart, title |-> titlePart]>>
          ELSE <<>>

\* the branch of the series-indicator loop for one indicator: <<>> when
\* it does not return, else <<[author, title]>>
seriesSplit(cleaned, lowerQuery, ind) ==
  IF ~includes(lowerQuery, ind) THEN <<>>
  ELSE LET idx        == indexOf(lowerQuery, ind)
           titleStart == lastSpaceUpTo(lowerQuery, idx)
           titlePart  == trim(SubSeq(cleaned, titleStart, Len(cleaned)))
           rawAuthor  == SubSeq(cleaned, 1, titleStart - 1)
           cutAuthor  == IF rawAuthor # "" /\ isSeparator(charAt(rawAuthor, Len(rawAuthor)))
                         THEN SubSeq(rawAuthor, 1, Len(rawAuthor) - 1)
                         ELSE rawAuthor
           authorPart == trim(cutAuthor)
       IN IF titleStart # 0 /\ authorPart # "" /\ titlePart # ""
          THEN <<[author |-> authorPart, title |-> titlePart]>>
          ELSE <<>>

RECURSIVE firstSeriesSplit(_, _, _)
firstSeriesSplit(cleaned, lowerQuery, inds) ==
  IF inds = <<>> THEN <<>>
  ELSE IF seriesSplit(cleaned, lowerQuery, inds[1]) # <<>>
       THEN seriesSplit(cleaned, lowerQuery, inds[1])
       ELSE firstSeriesSplit(cleaned, lowerQuery, Tail(inds))

parseQueryAdvanced(q) ==
  LET cleaned    == trim(removeWords(q, <<"books", "book", "booklist">>))
      rawParts   == splitSep(cleaned, "")
      parts      == SelectSeq([i \in 1..Len(rawParts) |-> trim(rawParts[i])], nonEmpty)
      lowerQuery == toLowerCase(cleaned)
      topics     == SelectSeq(topicKeywords, LAMBDA t : includes(lowerQuery, t))
      words      == SelectSeq(split(cleaned), nonEmpty)
      isBy(k)    == toLowerCase(words[k]) = "by"
      byIndex    == IF \E k \in 1..Len(words) : isBy(k)
                    THEN CHOOSE k \in 1..Len(words) :
                           isBy(k) /\ \A j \in 1..(k - 1) : ~isBy(j)
                    ELSE 0
      series     == firstSeriesSplit(cleaned, lowerQuery, seriesIndicators)
  IN IF Len(parts) >= 2
     THEN [author |-> <<parts[1]>>, title |-> join(Tail(parts), " "),
           topics |-> topics]
     ELSE IF byIndex > 1 /\ byIndex < Len(words)
     THEN [author |-> <<join(SubSeq(words, byIndex + 1, Len(words)), " ")>>,
           title |-> join(SubSeq(words, 1, byIndex - 1), " "),
           topics |-> topics]
     ELSE IF Len(words) >= 3
             /\ \E k \in 1..Len(knownAuthors) : startsWith(lowerQuery, knownAuthors[k])
     THEN [author |-> <<join(SubSeq(words, 1, 2), " ")>>,
           title |-> join(SubSeq(words, 3, Len(words)), " "),
           topics |-> topics]
     ELSE IF Len(words) >= 3 /\ series # <<>>
     THEN [author |-> <<series[1].author>>, title |-> series[1].title,
           topics |-> topics]
     ELSE [author |-> <<>>, title |-> cleaned, topics |-> topics]

(***************************************************************************)
(* Books.  A Book of shared/schema.ts, with the fields the engine reads:   *)
(* author is "" when the provider gave none (the code reads it as          *)
(* book.author || ""), aiDescription is <<>> until the scorer sets it.     *)
(***************************************************************************)
Book(id, title, author, description, category, keyTopics, source) ==
  [id |-> id, title |-> title, author |-> author, description |-> description,
   category |-> category, keyTopics |-> keyTopics, source |-> source,
   aiDescription |-> <<>>]

\* the curated catalog (server/bookCatalog.ts): two of its entries
bookCatalog ==
  << Book("gp-gita", "Bhagavad Gita", "Vyasa", "Dialogue on dharma and karma",
          "Scripture", <<"Karma Yoga">>, "gita_press"),
     Book("ei-yoga", "Yoga Sutras", "Patanjali", "Aphorisms on samadhi",
          "Yoga", <<"Samadhi">>, "exotic_india") >>

\* the sources that are neither google_books nor web_search
catalogSourceNames ==
  {"exotic_india", "gita_press", "chaukhamba", "archive_org", "amazon",
   "flipkart", "bookish_santa", "vedic_books", "mlbd"}

bookSources == catalogSourceNames \cup {"google_books", "web_search"}

(***************************************************************************)
(* What the providers may answer.  A payload is the parsed body of a       *)
(* successful answer; the records are the provider's own shape.            *)
(***************************************************************************)
longDescription ==
  "The song of the Lord, a dialogue on duty, devotion and knowledge."

GoogleVolume(id, title, authors, description, categories) ==
  [id |-> id, title |-> title, authors |-> authors,
   description |-> description, categories |-> categories]

GoogleVolumes ==
  << GoogleVolume("g1", "Bhagavad Gita", <<"Vyasa">>, longDescription, <<"Religion">>),
     GoogleVolume("g2", "Gita Notes", <<>>, "Short notes", <<>>) >>

GooglePayloads == {<<>>, GoogleVolumes}

OpenLibraryDoc(key, title, author_name, subject) ==
  [key |-> key, title |-> title, author_name |-> author_name, subject |-> subject]

OpenLibraryPayloads ==
  { << OpenLibraryDoc("/works/OL1W", "BHAGAVAD GITA", <<"vyasa">>, <<"Hinduism">>),
       OpenLibraryDoc("", "Untitled", <<>>, <<>>) >> }

AmazonItem(asin, title, author) == [asin |-> asin, title |-> title, author |-> author]

AmazonPayloads ==
  { << AmazonItem("B01", "Bhagavad Gita", "Vyasa"),
       AmazonItem("", "Sponsored", "Unknown") >> }

\* the titles and the author names found in the Goodreads XML
GoodreadsPayloads ==
  { [titles |-> <<"Zen", "Zen Mind">>, authors |-> <<"Anon", "Suzuki">>] }

\* the value of a field that the payload does not hold
undefined == "<undefined>"

GutenbergItem(id, title, author) == [id |-> id, title |-> title, author |-> author]

\* the results are read as any: the second payload holds one without title
GutenbergPayloads ==
  { << GutenbergItem("2388", "Mahabharata", "Vyasa") >>,
    << GutenbergItem("84", undefined, "") >> }

(***************************************************************************)
(* server/googleBooks.ts                                                   *)
(***************************************************************************)
\* the shortest description a Google volume must exceed to be kept
MinDescription == 50

convertToBook(volume) ==
  Book("google_" \o volume.id,
       volume.title,
       join(volume.authors, ", "),
       IF volume.description # "" THEN volume.description
       ELSE "No description available",
       IF volume.categories # <<>> /\ volume.categories[1] # ""
       THEN volume.categories[1] ELSE "Spirituality",
       volume.categories,
       "google_books")

\* the body of searchGoogleBooks after a successful answer
googleBooksOf(items) ==
  LET kept == SelectSeq(items, LAMBDA item :
                item.description # "" /\ Len(item.description) > MinDescription)
  IN [i \in 1..Len(kept) |-> convertToBook(kept[i])]

(***************************************************************************)
(* server/webSearch.ts: the adapters                                       *)
(***************************************************************************)
convertOpenLibraryToBook(doc) ==
  Book("openlibrary_" \o replaceFirst(doc.key, "/works/", ""),
       doc.title,
       IF join(doc.author_name, ", ") # "" THEN join(doc.author_name, ", ")
       ELSE "Unknown Author",
       "Book from Open Library database. Published in Unknown.",
       IF doc.subject # <<>> /\ doc.subject[1] # "" THEN doc.subject[1]
       ELSE "Spirituality",
       doc.subject,
       "web_search")

\* the body of searchOpenLibrary after a successful answer (no doc of the
\* model has a publisher or an isbn)
openLibraryBooksOf(docs) ==
  LET kept == SelectSeq(docs, LAMBDA doc :
                doc.title # "" /\ doc.author_name # <<>> /\ doc.key # "")
  IN [i \in 1..Len(kept) |-> convertOpenLibraryToBook(kept[i])]

bookKeywords == <<"book", "author", "published", "spiritual", "literature">>

buildBookSearchQuery(userQuery) ==
  LET hasBookKeyword == \E k \in 1..Len(bookKeywords) :
                          includes(toLowerCase(userQuery), bookKeywords[k])
      cleaned    == trim(removeWords(userQuery, <<"books", "book">>))
      needsQuote == Len(split(cleaned)) > 1
      phrase     == IF needsQuote THEN "\"" \o cleaned \o "\"" ELSE cleaned
  IN IF ~hasBookKeyword THEN phrase \o " book spiritual literature" ELSE phrase

\* items.each of searchAmazonBooks: stops once maxResults books are
\* collected; maxResults is thirds / 3, a fraction
RECURSIVE amazonBooksOf(_, _, _, _)
amazonBooksOf(items, bookQuery, thirds, books) ==
  IF items = <<>> \/ 3 * Len(books) >= thirds THEN books
  ELSE amazonBooksOf(Tail(items), bookQuery, thirds,
         IF items[1].title # "" /\ items[1].asin # ""
         THEN Append(books,
                Book("amazon_" \o items[1].asin, items[1].title, items[1].author,
                     "Available on Amazon", "Spirituality", <<bookQuery>>,
                     "web_search"))
         ELSE books)

MinTitle == 3

\* the loop of searchGoodreadsBooks, i counting from 0
RECURSIVE goodreadsBooksOf(_, _, _, _)
goodreadsBooksOf(payload, bookQuery, thirds, i) ==
  IF 3 * i >= thirds \/ i >= Len(payload.titles) THEN <<>>
  ELSE LET title  == payload.titles[i + 1]
           author == IF i + 1 <= Len(payload.authors) /\ payload.authors[i + 1] # ""
                     THEN payload.authors[i + 1] ELSE "Unknown"
       IN (IF title # "" /\ Len(title) > MinTitle
           THEN << Book("goodreads_" \o DigitChars[i + 1], title, author,
                        "Book available on Goodreads matching \"" \o bookQuery \o "\"",
                        "Spirituality", <<bookQuery>>, "web_search") >>
           ELSE <<>>)
          \o goodreadsBooksOf(payload, bookQuery, thirds, i + 1)

\* the body of searchProjectGutenberg after a successful answer
gutenbergBooksOf(items, bookQuery, thirds) ==
  LET kept == slice(items, thirds \div 3)
  IN [i \in 1..Len(kept) |->
        Book("gutenberg_" \o kept[i].id, kept[i].title,
             IF kept[i].author # "" THEN kept[i].author ELSE "Unknown",
             "Free book available on Project Gutenberg. Published: Unknown",
             "Spirituality", <<bookQuery>>, "web_search")]

(***************************************************************************)
(* server/webSearch.ts: deduplication and ranking                          *)
(***************************************************************************)
dedupKey(book) == toLowerCase(book.title) \o "-" \o toLowerCase(book.author)

deduplicateBooks(books) ==
  LET first(i) == \A j \in 1..(i - 1) : dedupKey(books[j]) # dedupKey(books[i])
      keptIdx  == SelectSeq([i \in 1..Len(books) |-> i], first)
  IN [k \in 1..Len(keptIdx) |-> books[keptIdx[k]]]

\* the score the comparator of rankByAuthorAndTopics gives one book
rankScore(book, author, topics) ==
  LET text == toLowerCase(book.title \o " " \o book.description \o " "
                          \o join(book.keyTopics, " "))
  IN (IF author # <<>> /\ author[1] # "" /\ book.author # ""
         /\ includes(toLowerCase(book.author), toLowerCase(author[1]))
      THEN 50 ELSE 0)
     + 10 * Cardinality({k \in 1..Len(topics) : includes(text, topics[k])})
     + (IF book.source = "web_search" THEN 5 ELSE 0)

\* a ranking that returns the books as it got them
rankByNothing(books, author, topics) == books

rankByAuthorAndTopics(books, author, topics) ==
  IF (author = <<>> \/ author[1] = "") /\ topics = <<>> THEN books
  ELSE LET order == sortOrder([i \in 1..Len(books) |->
                                 rankScore(books[i], author, topics)])
       IN [r \in 1..Len(books) |-> books[order[r]]]

\* book.title.toLowerCase() of deduplicateBooks throws a TypeError
deduplicateThrows(books) == \E i \in 1..Len(books) : books[i].title = undefined

\* the continuation of searchWeb after both of its searches have answered
webBooksOf(q, maxResults, openLibraryBooks, googleSearchBooks) ==
  LET intent == parseQueryAdvanced(q)
      deduplicatedBooks == deduplicateBooks(openLibraryBooks \o googleSearchBooks)
      ranked == rankByAuthorAndTopics(deduplicatedBooks, intent.author, intent.topics)
  IN slice(ranked, maxResults)

(***************************************************************************)
(* server/aiSearch.ts: scoring                                             *)
(***************************************************************************)
\* the tiers with their lower ends left out
getConfidenceTierExclusive(score) ==
  IF score > 90 THEN "strong"
  ELSE IF score > 70 THEN "good"
  ELSE IF score > 50 THEN "potential"
  ELSE "weak"

getConfidenceTier(score) ==
  IF score >= 90 THEN "strong"
  ELSE IF score >= 70 THEN "good"
  ELSE IF score >= 50 THEN "potential"
  ELSE "weak"

\* a catalog search that returns the whole catalog for every selection
catalogBooksUnfiltered(cat, srcs) == cat

catalogBooksOf(cat, srcs) ==
  IF srcs = {} THEN cat
  ELSE LET catalogSources == {x \in srcs : x # "google_books" /\ x # "web_search"}
       IN IF catalogSources = {} THEN <<>>
          ELSE SelectSeq(cat, LAMBDA book : book.source \in catalogSources)

\* the caps of the proportional sampling
MaxCatalogBooks == 15
MaxGoogleBooks == 25
MaxWebBooks == 50
\* the maxResults searchBooksWithAI passes to searchWeb
WebMaxResults == 40

\* allBooks: web search first, then Google Books, then the catalog
poolOf(catalogBooks, googleBooksResults, webSearchResults) ==
  slice(webSearchResults, MaxWebBooks)
    \o slice(googleBooksResults, MaxGoogleBooks)
    \o slice(catalogBooks, MaxCatalogBooks)

\* the admission filter on the evaluator's matches
MinRelevance == 50

admitted(match) == match.relevanceScore >= MinRelevance

\* a lookup that answers an unknown id with the first book of the pool
bookMapGetOrFirst(books, id) ==
  IF \E i \in 1..Len(books) : books[i].id = id
  THEN <<books[CHOOSE i \in 1..Len(books) :
                 /\ books[i].id = id
                 /\ \A j \in (i + 1)..Len(books) : books[j].id # id]>>
  ELSE SubSeq(books, 1, 1)

\* bookMap.get(id): the Map is built from allBooks in order, so the last
\* book with an id is the one it holds; <<>> when there is none
bookMapGet(books, id) ==
  IF \E i \in 1..Len(books) : books[i].id = id
  THEN <<books[CHOOSE i \in 1..Len(books) :
                 /\ books[i].id = id
                 /\ \A j \in (i + 1)..Len(books) : books[j].id # id]>>
  ELSE <<>>

\* a result whose book has the evaluator's text as its description too
aiResultRedescribed(match, book) ==
  [book |-> [book EXCEPT !.aiDescription = <<match.aiDescription>>,
                         !.description = match.aiDescription],
   relevanceScore |-> match.relevanceScore,
   matchReason |-> "evaluator",
   confidenceTier |-> getConfidenceTier(match.relevanceScore),
   isGrounded |-> book.source # "google_books"]

\* the result pushed for one admitted match
aiResult(match, book) ==
  [book |-> [book EXCEPT !.aiDescription = <<match.aiDescription>>],
   relevanceScore |-> match.relevanceScore,
   matchReason |-> "evaluator",
   confidenceTier |-> getConfidenceTier(match.relevanceScore),
   isGrounded |-> book.source # "google_books"]

sortByRelevance(rs) ==
  LET order == sortOrder([i \in 1..Len(rs) |-> rs[i].relevanceScore])
  IN [r \in 1..Len(rs) |-> rs[order[r]]]

\* filter, reduce and sort of the evaluator's matches
RECURSIVE reduceMatches(_, _)
reduceMatches(matches, books) ==
  IF matches = <<>> THEN <<>>
  ELSE (IF bookMapGet(books, matches[1].bookId) = <<>> THEN <<>>
        ELSE <<aiResult(matches[1], bookMapGet(books, matches[1].bookId)[1])>>)
       \o reduceMatches(Tail(matches), books)

aiResults(matches, books) ==
  sortByRelevance(reduceMatches(SelectSeq(matches, admitted), books))

\* the weights and the ceiling of the keyword scorer
WordHit == 20
TitleHit == 15
CategoryHit == 10
MaxFallbackScore == 95
MinWordLength == 3
MaxFallbackResults == 30

\* a keyword scorer that counts the short words too
RECURSIVE fallbackScoreAnyLength(_, _)
fallbackScoreAnyLength(book, queryWords) ==
  IF queryWords = <<>> THEN 0
  ELSE LET word == queryWords[1]
           searchableText ==
             toLowerCase(book.title \o " " \o book.author \o " "
                         \o book.description \o " " \o book.category \o " "
                         \o join(book.keyTopics, " "))
       IN (IF includes(searchableText, word)
           THEN WordHit
                + (IF includes(toLowerCase(book.title), word) THEN TitleHit ELSE 0)
                + (IF book.category # "" /\ includes(toLowerCase(book.category), word)
                   THEN CategoryHit ELSE 0)
           ELSE 0)
          + fallbackScoreAnyLength(book, Tail(queryWords))

RECURSIVE fallbackScore(_, _)
fallbackScore(book, queryWords) ==
  IF queryWords = <<>> THEN 0
  ELSE LET word == queryWords[1]
           searchableText ==
             toLowerCase(book.title \o " " \o book.author \o " "
                         \o book.description \o " " \o book.category \o " "
                         \o join(book.keyTopics, " "))
       IN (IF Len(word) >= MinWordLength /\ includes(searchableText, word)
           THEN WordHit
                + (IF includes(toLowerCase(book.title), word) THEN TitleHit ELSE 0)
                + (IF book.category # "" /\ includes(toLowerCase(book.category), word)
                   THEN CategoryHit ELSE 0)
           ELSE 0)
          + fallbackScore(book, Tail(queryWords))

min(a, b) == IF a < b THEN a ELSE b

\* a keyword result that is grounded only when its book is a catalog book
fallbackResultByProvenance(book, queryWords) ==
  [book |-> book,
   relevanceScore |-> min(fallbackScore(book, queryWords), MaxFallbackScore),
   matchReason |-> "Matched using keyword search",
   confidenceTier |-> getConfidenceTier(min(fallbackScore(book, queryWords),
                                            MaxFallbackScore)),
   isGrounded |-> book.source \notin {"google_books", "web_search"}]

fallbackResult(book, queryWords) ==
  [book |-> book,
   relevanceScore |-> min(fallbackScore(book, queryWords), MaxFallbackScore),
   matchReason |-> "Matched using keyword search",
   confidenceTier |-> getConfidenceTier(min(fallbackScore(book, queryWords),
                                            MaxFallbackScore)),
   isGrounded |-> TRUE]

scoredAboveZero(result) == result.relevanceScore > 0

\* a keyword scorer that keeps the candidates it scored 0
fallbackSearchUnfiltered(q, books) ==
  LET queryWords == split(toLowerCase(q))
      scored == [i \in 1..Len(books) |-> fallbackResult(books[i], queryWords)]
  IN slice(sortByRelevance(scored), MaxFallbackResults)

fallbackSearch(q, books) ==
  LET queryWords == split(toLowerCase(q))
      scored == [i \in 1..Len(books) |-> fallbackResult(books[i], queryWords)]
  IN slice(sortByRelevance(SelectSeq(scored, scoredAboveZero)), MaxFallbackResults)

(***************************************************************************)
(* The evaluator's answer.  Its text is a sequence of lexical pieces, as   *)
(* far as the two regular expressions and JSON.parse tell them apart:      *)
(*   "prose"     text with no brace and no fence                           *)
(*   "fence"     a ``` line                                                *)
(*   "braces"    a brace pair that holds no JSON, such as {see below}      *)
(*   "truncated" a JSON object cut off before its closing brace            *)
(*   "nomatches" a complete JSON object without a matches list             *)
(*   "json"      a complete JSON object {"matches": [...], ...}            *)
(***************************************************************************)
Pieces == {"prose", "fence", "braces", "truncated", "nomatches", "json"}

opensBrace(piece) == piece \in {"braces", "truncated", "nomatches", "json"}
closesBrace(piece) == piece \in {"braces", "nomatches", "json"}

\* a jsonText without the two regular expressions: the whole text
jsonTextWhole(text) == text

\* jsonText: the inside of the first fenced block, else the span from the
\* first opening to the last closing brace, else the whole text
jsonTextOf(text) ==
  LET fences == {i \in 1..Len(text) : text[i] = "fence"}
      opens  == {i \in 1..Len(text) : opensBrace(text[i])}
      closes == {i \in 1..Len(text) : closesBrace(text[i])}
      least(S)    == CHOOSE i \in S : \A j \in S : i <= j
      greatest(S) == CHOOSE i \in S : \A j \in S : i >= j
  IN IF Cardinality(fences) >= 2
     THEN SubSeq(text, least(fences) + 1, least(fences \ {least(fences)}) - 1)
     ELSE IF opens # {} /\ closes # {} /\ least(opens) <= greatest(closes)
     THEN SubSeq(text, least(opens), greatest(closes))
     ELSE text

\* JSON.parse(jsonText): "matches" when it yields an object with a matches
\* list, "nomatches" when it yields an object without one, "throws" else
parseOutcome(jsonText) ==
  IF jsonText = <<"json">> THEN "matches"
  ELSE IF jsonText = <<"nomatches">> THEN "nomatches"
  ELSE "throws"

\* whether the try block of searchBooksWithAI completes for this answer
evaluationSucceeds(answer) ==
  answer.kind = "text" /\ parseOutcome(jsonTextOf(answer.text)) = "matches"

(***************************************************************************)
(* Inputs of the model                                                     *)
(***************************************************************************)
\* the longest query the schema accepts
MaxQueryLength == 500

\* String.prototype.repeat, by halves
RECURSIVE repeat(_, _)
repeat(s, n) ==
  IF n = 0 THEN ""
  ELSE IF n = 1 THEN s
  ELSE repeat(s, n \div 2) \o repeat(s, n - n \div 2)

\* a query one character longer than the schema allows
LongQuery == repeat("a", MaxQueryLength + 1)

Queries == {"", "Vyasa gita yoga", LongQuery}

SourceSelections ==
  {{}, {"google_books"}, {"google_books", "web_search"}, {"gita_press"}}

\* the ways in which a provider's answer can fail
Failures == {"neterr", "status", "malformed"}

Outcomes(payloads) ==
  [kind : Failures, payload : {<<>>}] \cup [kind : {"ok"}, payload : payloads]

\* what the evaluator may name and how it may score it
MatchIds == {"gp-gita", "google_g1", "ghost"}
MatchScores == {49, 50, 70, 90}

\* a match the evaluator calls not grounded is one it scores high
Matches ==
  [bookId : MatchIds, relevanceScore : MatchScores, aiDescription : {"relevant"},
   isGrounded : {TRUE}]
  \cup [bookId : MatchIds, relevanceScore : {90}, aiDescription : {"relevant"},
        isGrounded : {FALSE}]

SeqsUpTo(S, n) == UNION {[1..k -> S] : k \in 0..n}

MatchLists == SeqsUpTo(Matches, MaxMatches)

\* the lists carried by an answer whose JSON is wrapped in other pieces
ProbeLists ==
  {ml \in SeqsUpTo(Matches, 1) :
     \A i \in 1..Len(ml) : ml[i].relevanceScore = 90 /\ ml[i].isGrounded}

Texts == SeqsUpTo(Pieces, MaxPieces)

EvaluatorAnswers ==
  {[kind |-> "error", text |-> <<>>, matches |-> <<>>]}
  \cup {[kind |-> "text", text |-> <<"json">>, matches |-> ml] : ml \in MatchLists}
  \cup {[kind |-> "text", text |-> t, matches |-> ml] :
          t \in {u \in Texts : u # <<"json">> /\ \E i \in 1..Len(u) : u[i] = "json"},
          ml \in ProbeLists}
  \cup {[kind |-> "text", text |-> t, matches |-> <<>>] :
          t \in {u \in Texts : \A i \in 1..Len(u) : u[i] # "json"}}

(***************************************************************************)
(* State                                                                   *)
(***************************************************************************)
\* the promises of one request: the three of searchBooksWithAI's
\* Promise.all and the four fetches inside searchWeb
TopLevel == {"catalog", "google", "web"}
Fetches == {"google", "openLibrary", "amazon", "goodreads", "gutenberg"}
Adapters == TopLevel \cup Fetches

Settled == {"off", "ok", "failed"}

NoResponse == [status |-> 0, results |-> <<>>, totalResults |-> 0]
NoAnswer == [kind |-> "none", text |-> <<>>, matches |-> <<>>]

VARIABLES
  pc,           \* where the request is: idle, fanout, evaluating, responded
  query,        \* req.body.query
  sources,      \* req.body.sources, as a set ({} when absent or empty)
  st,           \* per promise: off, waiting, pending, ok, failed, hung
  out,          \* per promise: the books it resolved to
  allBooks,     \* the candidate pool
  answer,       \* what the evaluator answered
  scorerTrace,  \* the phases the scorer went through
  evalCalls,    \* calls of generateContent
  fallbackCalls,\* calls of fallbackSearch
  response,     \* what res.json / res.status sent
  intent,       \* what parseQueryAdvanced returned to searchWeb
  faults,       \* calls of console.error("Search error:", ...) in the route
  catalog,      \* the module-level array bookCatalog, shared by all requests
  listing,      \* what GET /api/books sent
  parked,       \* a second request in flight, while the other one runs
  openLibraryUrls \* the search parameter of each fetch searchOpenLibrary sent

vars == <<pc, query, sources, st, out, allBooks, answer, scorerTrace,
          evalCalls, fallbackCalls, response, intent, faults, catalog, listing,
          parked, openLibraryUrls>>

\* the variables that belong to one request
request ==
  [pc |-> pc, query |-> query, sources |-> sources, st |-> st, out |-> out,
   allBooks |-> allBooks, answer |-> answer, scorerTrace |-> scorerTrace,
   evalCalls |-> evalCalls, fallbackCalls |-> fallbackCalls,
   response |-> response, intent |-> intent,
   openLibraryUrls |-> openLibraryUrls]

\* what no step of a search after the POST touches
outside == <<listing, parked, openLibraryUrls>>

NoIntent == [author |-> <<>>, title |-> "", topics |-> <<>>]
NoListing == [status |-> 0, source |-> <<>>, books |-> <<>>]

\* a request that has not been received yet
idleRequest ==
  [pc |-> "idle", query |-> "", sources |-> {},
   st |-> [a \in Adapters |-> "off"], out |-> [a \in Adapters |-> <<>>],
   allBooks |-> <<>>, answer |-> NoAnswer, scorerTrace |-> <<>>,
   evalCalls |-> 0, fallbackCalls |-> 0, response |-> NoResponse,
   intent |-> NoIntent, openLibraryUrls |-> <<>>]

\* the search parameter searchOpenLibrary puts into its URL: author (with
\* title) when the interpreter found an author, else q with the raw query
openLibraryParam(q) ==
  IF parseQueryAdvanced(q).author # <<>> /\ parseQueryAdvanced(q).author[1] # ""
  THEN "author" ELSE "q"

\* getCatalogBooks reads the array that all requests share
getCatalogBooks(srcs) == catalogBooksOf(catalog, srcs)

Init ==
  /\ pc = "idle"
  /\ query = ""
  /\ sources = {}
  /\ st = [a \in Adapters |-> "off"]
  /\ out = [a \in Adapters |-> <<>>]
  /\ allBooks = <<>>
  /\ answer = NoAnswer
  /\ scorerTrace = <<>>
  /\ evalCalls = 0
  /\ fallbackCalls = 0
  /\ response = NoResponse
  /\ intent = NoIntent
  /\ faults = 0
  /\ catalog = bookCatalog
  /\ listing = NoListing
  /\ parked = idleRequest
  /\ openLibraryUrls = <<>>

(***************************************************************************)
(* POST /api/search up to the first await: validation, and the start of    *)
(* the three searches of Promise.all                                       *)
(***************************************************************************)
\* searchQuerySchema.parse
validQuery(q, srcs) ==
  Len(q) >= 1 /\ Len(q) <= MaxQueryLength /\ srcs \subseteq bookSources

searchCatalog(srcs) ==
  srcs = {} \/ \E x \in srcs : x # "google_books" /\ x # "web_search"
searchInternet(srcs) == srcs = {} \/ "google_books" \in srcs
searchEntireWeb(srcs) == srcs = {} \/ "web_search" \in srcs

PostSearch(q, srcs) ==
  /\ pc = "idle"
  /\ query' = q
  /\ sources' = srcs
  /\ IF ~validQuery(q, srcs)
     THEN /\ pc' = "responded"
          /\ response' = [status |-> 400, results |-> <<>>, totalResults |-> 0]
          /\ faults' = faults + 1
          /\ UNCHANGED <<st, out, openLibraryUrls>>
     ELSE /\ pc' = "fanout"
          /\ st' = [a \in Adapters |->
                      CASE a = "catalog" -> IF searchCatalog(srcs) THEN "ok" ELSE "off"
                        [] a = "google" -> IF searchInternet(srcs) THEN "pending" ELSE "off"
                        [] a \in {"web", "openLibrary", "amazon"} ->
                             IF searchEntireWeb(srcs) THEN "pending" ELSE "off"
                        [] OTHER -> IF searchEntireWeb(srcs) THEN "waiting" ELSE "off"]
          /\ out' = [out EXCEPT !["catalog"] =
                       IF searchCatalog(srcs) THEN getCatalogBooks(srcs) ELSE <<>>]
          /\ openLibraryUrls' =
               IF searchEntireWeb(srcs) THEN <<openLibraryParam(q)>> ELSE <<>>
          /\ UNCHANGED <<response, faults>>
  /\ UNCHANGED <<allBooks, answer, scorerTrace, evalCalls, fallbackCalls, intent,
                 catalog, listing, parked>>

(***************************************************************************)
(* The provider answers.  Every adapter turns a failed answer into [].     *)
(***************************************************************************)
\* an adapter without its catch block and its !response.ok branch: the
\* failure leaves the adapter as a rejected promise
resolvedRethrows(outcome, books) ==
  IF outcome.kind = "ok" THEN [status |-> "ok", books |-> books]
  ELSE [status |-> "rejected", books |-> <<>>]

\* what an adapter resolves to for an outcome: the catch blocks and the
\* !response.ok branches return []
resolved(outcome, books) ==
  IF outcome.kind = "ok" THEN [status |-> "ok", books |-> books]
  ELSE [status |-> "failed", books |-> <<>>]

\* the fetch of adapter a settles as r; next is the fetch that the
\* function awaiting a issues then ("" when there is none, and none when
\* the await throws)
Settle(a, r, next) ==
  /\ pc = "fanout"
  /\ st[a] = "pending"
  /\ st' = [b \in Adapters |->
              IF b = a THEN r.status
              ELSE IF b = next /\ r.status # "rejected" THEN "pending" ELSE st[b]]
  /\ out' = [out EXCEPT ![a] = r.books]
  /\ UNCHANGED <<pc, query, sources, allBooks, answer, scorerTrace, evalCalls,
                 fallbackCalls, response, intent, faults, catalog,
                 outside>>

searchGoogleBooks(o) ==
  Settle("google", resolved(o, googleBooksOf(o.payload)), "")

searchOpenLibrary(o) ==
  Settle("openLibrary", resolved(o, openLibraryBooksOf(o.payload)), "")

\* three times the maxResults that searchGoogleForBooks hands to each
\* platform: it gets Math.floor(maxResults / 2) and hands on a third of it
thirdsOf(maxResults) == maxResults \div 2

searchAmazonBooks(o) ==
  Settle("amazon",
         resolved(o, amazonBooksOf(o.payload, buildBookSearchQuery(query),
                                   thirdsOf(WebMaxResults), <<>>)),
         "goodreads")

searchGoodreadsBooks(o) ==
  Settle("goodreads",
         resolved(o, IF o.kind = "ok"
                     THEN goodreadsBooksOf(o.payload, buildBookSearchQuery(query),
                                           thirdsOf(WebMaxResults), 0)
                     ELSE <<>>),
         "gutenberg")

searchProjectGutenberg(o) ==
  Settle("gutenberg",
         resolved(o, gutenbergBooksOf(o.payload, buildBookSearchQuery(query),
                                      thirdsOf(WebMaxResults))),
         "")

\* a provider that never answers: no adapter sets a timeout on its fetch
NeverAnswers(a) ==
  /\ pc = "fanout"
  /\ a \in Fetches
  /\ st[a] = "pending"
  /\ st' = [st EXCEPT ![a] = "hung"]
  /\ UNCHANGED <<pc, query, sources, out, allBooks, answer, scorerTrace,
                 evalCalls, fallbackCalls, response, intent, faults,
                 catalog, outside>>

\* the platforms searchGoogleForBooks awaits one after the other
Scraped == {"amazon", "goodreads", "gutenberg"}

\* what searchGoogleForBooks returns: the books pushed, or [] from its
\* catch block
googleSearchBooksOf(s, o) ==
  IF \E a \in Scraped : s[a] = "rejected" THEN <<>>
  ELSE o["amazon"] \o o["goodreads"] \o o["gutenberg"]

\* searchGoogleForBooks has returned
scrapedDone(s) ==
  s["gutenberg"] \in Settled \/ \E a \in Scraped : s[a] = "rejected"

\* the Promise.all of searchWeb has resolved, or rejected
webSettled(s) ==
  \/ s["openLibrary"] = "rejected"
  \/ s["openLibrary"] \in Settled /\ scrapedDone(s)

\* the try block of searchWeb throws: its Promise.all rejects, or
\* deduplicateBooks does
webThrows(s, o) ==
  \/ s["openLibrary"] = "rejected"
  \/ deduplicateThrows(o["openLibrary"] \o googleSearchBooksOf(s, o))

\* searchWeb after its Promise.all: the ranked books, or [] from its catch
searchWeb ==
  /\ pc = "fanout"
  /\ st["web"] = "pending"
  /\ webSettled(st)
  /\ IF webThrows(st, out)
     THEN /\ st' = [st EXCEPT !["web"] = "failed"]
          /\ out' = [out EXCEPT !["web"] = <<>>]
     ELSE /\ st' = [st EXCEPT !["web"] = "ok"]
          /\ out' = [out EXCEPT !["web"] =
                       webBooksOf(query, WebMaxResults, out["openLibrary"],
                                  googleSearchBooksOf(st, out))]
  /\ intent' = parseQueryAdvanced(query)
  /\ UNCHANGED <<pc, query, sources, allBooks, answer, scorerTrace, evalCalls,
                 fallbackCalls, response, faults, catalog, outside>>

(***************************************************************************)
(* searchBooksWithAI after its Promise.all                                 *)
(***************************************************************************)
\* a Promise.race in the place of Promise.all: the first promise to settle
\* lets the pooling start
fanOutRace(s) == \E a \in TopLevel : s[a] \in {"ok", "failed"}

\* Promise.all resolves when every one of its promises has
fanOutSettled(s) == \A a \in TopLevel : s[a] \in Settled

\* Promise.all rejects as soon as one of its promises does
fanOutRejected(s) == \E a \in TopLevel : s[a] = "rejected"

\* res.json of the route
ok200(results) == [status |-> 200, results |-> results, totalResults |-> Len(results)]

\* the catch block of the route, for an error that is no ZodError
error500 == [status |-> 500, results |-> <<>>, totalResults |-> 0]

\* a pooling that appends the Google Books results to catalogBooks, which
\* is the shared array itself when the request names no source
catalogPushedInto(cat, srcs, googleBooksResults) ==
  IF srcs = {} THEN cat \o slice(googleBooksResults, MaxGoogleBooks) ELSE cat

\* the shared array after the pooling: slice and the spread into allBooks
\* copy, so it is as before
catalogAfterPooling(cat, srcs, googleBooksResults) == cat

\* results that get their aiDescription written into the pooled book itself
catalogDescribedInPlace(cat, results) ==
  [k \in 1..Len(cat) |->
     IF \E i \in 1..Len(results) : results[i].book.id = cat[k].id
     THEN [cat[k] EXCEPT !.aiDescription =
             results[CHOOSE i \in 1..Len(results) :
                       /\ results[i].book.id = cat[k].id
                       /\ \A j \in (i + 1)..Len(results) :
                            results[j].book.id # cat[k].id].book.aiDescription]
     ELSE cat[k]]

\* the shared array after the scoring: every result holds a copy of its
\* book ({...book, aiDescription}), so it is as before
catalogAfterScoring(cat, results) == cat

PoolCandidates ==
  /\ pc = "fanout"
  /\ fanOutSettled(st) \/ fanOutRejected(st)
  /\ IF fanOutRejected(st)
     THEN /\ pc' = "responded"
          /\ response' = error500
          /\ faults' = faults + 1
          /\ UNCHANGED <<allBooks, scorerTrace, evalCalls, catalog>>
     ELSE /\ allBooks' = poolOf(out["catalog"], out["google"], out["web"])
          /\ catalog' = catalogAfterPooling(catalog, sources, out["google"])
          /\ UNCHANGED faults
          /\ IF allBooks' = <<>>
             THEN /\ pc' = "responded"
                  /\ response' = ok200(<<>>)
                  /\ UNCHANGED <<scorerTrace, evalCalls>>
             ELSE /\ pc' = "evaluating"
                  /\ scorerTrace' = <<"llm">>
                  /\ evalCalls' = evalCalls + 1
                  /\ UNCHANGED response
  /\ UNCHANGED <<query, sources, st, out, answer, fallbackCalls, intent, outside>>

\* the answers for which the try block completes, and the others
SucceedingAnswers == {a \in EvaluatorAnswers : evaluationSucceeds(a)}
FailingAnswers == EvaluatorAnswers \ SucceedingAnswers

\* a catch block that asks the evaluator once more before it falls back
EvaluateRetry ==
  /\ pc = "evaluating"
  /\ \/ /\ \E a \in SucceedingAnswers :
             /\ answer' = a
             /\ response' = ok200(aiResults(a.matches, allBooks))
        /\ catalog' = catalogAfterScoring(catalog, response'.results)
        /\ pc' = "responded"
        /\ scorerTrace' = scorerTrace \o <<"success">>
        /\ UNCHANGED <<fallbackCalls, evalCalls>>
     \/ /\ evalCalls < 2
        /\ \E a \in FailingAnswers : answer' = a
        /\ pc' = "evaluating"
        /\ scorerTrace' = <<"llm">>
        /\ evalCalls' = evalCalls + 1
        /\ UNCHANGED <<fallbackCalls, response, catalog>>
     \/ /\ evalCalls >= 2
        /\ response' = ok200(fallbackSearch(query, allBooks))
        /\ \E a \in FailingAnswers : answer' = a
        /\ pc' = "responded"
        /\ scorerTrace' = scorerTrace \o <<"failed", "fallback", "success">>
        /\ fallbackCalls' = fallbackCalls + 1
        /\ UNCHANGED <<evalCalls, catalog>>
  /\ UNCHANGED <<query, sources, st, out, allBooks, intent, faults, outside>>

\* the evaluator answers (or its call throws): the try block for an answer
\* of succeeding, or the catch block with its call of fallbackSearch for an
\* answer of failing
EvaluateWith(succeeding, failing) ==
  /\ pc = "evaluating"
  /\ pc' = "responded"
  /\ \/ /\ \E a \in succeeding :
             /\ answer' = a
             /\ response' = ok200(aiResults(a.matches, allBooks))
        /\ catalog' = catalogAfterScoring(catalog, response'.results)
        /\ scorerTrace' = scorerTrace \o <<"success">>
        /\ UNCHANGED fallbackCalls
     \/ /\ response' = ok200(fallbackSearch(query, allBooks))
        /\ \E a \in failing : answer' = a
        /\ scorerTrace' = scorerTrace \o <<"failed", "fallback", "success">>
        /\ fallbackCalls' = fallbackCalls + 1
        /\ UNCHANGED catalog
  /\ UNCHANGED <<query, sources, st, out, allBooks, evalCalls, intent, faults,
                 outside>>

\* the evaluator's answer is any of EvaluatorAnswers
Evaluate == EvaluateWith(SucceedingAnswers, FailingAnswers)

Next ==
  \/ \E q \in Queries, srcs \in SourceSelections : PostSearch(q, srcs)
  \/ \E o \in Outcomes(GooglePayloads) : searchGoogleBooks(o)
  \/ \E o \in Outcomes(OpenLibraryPayloads) : searchOpenLibrary(o)
  \/ \E o \in Outcomes(AmazonPayloads) : searchAmazonBooks(o)
  \/ \E o \in Outcomes(GoodreadsPayloads) : searchGoodreadsBooks(o)
  \/ \E o \in Outcomes(GutenbergPayloads) : searchProjectGutenberg(o)
  \/ \E a \in Fetches : NeverAnswers(a)
  \/ searchWeb
  \/ PoolCandidates
  \/ Evaluate

Spec == Init /\ [][Next]_vars

\* the event loop runs every continuation that is ready: a step that can
\* be taken is taken
LiveSpec == Init /\ [][Next]_vars /\ WF_vars(Next)

TypeOK ==
  /\ pc \in {"idle", "fanout", "evaluating", "responded"}
  /\ \A a \in Adapters :
       st[a] \in {"off", "waiting", "pending", "ok", "failed", "hung", "rejected"}
  /\ response.status \in {0, 200, 400, 500}
  /\ evalCalls \in 0..2
  /\ fallbackCalls \in 0..1

(***************************************************************************)
(* The scorer alone: searchBooksWithAI from its call of generateContent    *)
(* on, for pools and answers that the providers and the evaluator can      *)
(* give.  searchOpenLibrary asks for 2 * maxResults = 40 docs and keeps    *)
(* them all, so a pool can hold more books than fallbackSearch returns.    *)
(***************************************************************************)
\* two decimal digits
idOf(n) == DigitChars[(n \div 10) + 1] \o DigitChars[(n % 10) + 1]

\* an answer of Open Library with n docs
docsOf(n) ==
  [i \in 1..n |->
     OpenLibraryDoc("/works/OL" \o idOf(i) \o "W", "Gita Commentary " \o idOf(i),
                    <<"Vyasa">>, <<"Hinduism">>)]

DocCounts ==
  {0, 1, MaxFallbackResults - 1, MaxFallbackResults, MaxFallbackResults + 1}

\* a query with words of the records, one with none, and one with short
\* words and with enough words of the records to pass the ceiling
ScorerQueries == {"Vyasa gita yoga", "xyzzy", "A Gita Commentary of Vyasa in Hinduism"}

ScorerSelections == {{}, {"web_search"}}

\* the answers of Project Gutenberg whose results have titles
ScorerGutenberg ==
  {<<>>} \cup {p \in GutenbergPayloads : \A i \in 1..Len(p) : p[i].title # undefined}

ScorerIds == {"gp-gita", "gutenberg_2388", "ghost"}
ScorerScores == {0 - 1, 49, 50, 100, 101}

ScorerMatches ==
  [bookId : ScorerIds, relevanceScore : ScorerScores, aiDescription : {"relevant"},
   isGrounded : {TRUE}]

ScorerSucceeding ==
  {[kind |-> "text", text |-> <<"json">>, matches |-> ml] :
     ml \in SeqsUpTo(ScorerMatches, MaxMatches)}

ScorerFailing ==
  {[kind |-> "error", text |-> <<>>, matches |-> <<>>],
   [kind |-> "text", text |-> <<"truncated">>, matches |-> <<>>]}

\* what the adapters have resolved to when Open Library has answered query
\* q with n docs and Project Gutenberg with items, and Google Books, Amazon
\* and Goodreads have failed
scorerOut(q, srcs, n, items) ==
  LET openLibraryBooks == openLibraryBooksOf(docsOf(n))
      gutenbergBooks ==
        gutenbergBooksOf(items, buildBookSearchQuery(q), thirdsOf(WebMaxResults))
  IN [a \in Adapters |->
        CASE a = "catalog" ->
               IF searchCatalog(srcs) THEN catalogBooksOf(bookCatalog, srcs) ELSE <<>>
          [] a = "openLibrary" -> openLibraryBooks
          [] a = "gutenberg" -> gutenbergBooks
          [] a = "web" -> webBooksOf(q, WebMaxResults, openLibraryBooks, gutenbergBooks)
          [] OTHER -> <<>>]

\* the states in which generateContent can then be called
ScorerInputs ==
  {[query |-> q, sources |-> srcs, out |-> scorerOut(q, srcs, n, items)] :
     q \in ScorerQueries, srcs \in ScorerSelections, n \in DocCounts,
     items \in ScorerGutenberg}

ScorerInit ==
  \E i \in ScorerInputs :
    /\ pc = "evaluating"
    /\ query = i.query
    /\ sources = i.sources
    /\ st = [a \in Adapters |->
               CASE a = "catalog" -> IF searchCatalog(i.sources) THEN "ok" ELSE "off"
                 [] a = "google" -> IF searchInternet(i.sources) THEN "failed" ELSE "off"
                 [] a \in {"amazon", "goodreads"} -> "failed"
                 [] OTHER -> "ok"]
    /\ out = i.out
    /\ allBooks = poolOf(i.out["catalog"], i.out["google"], i.out["web"])
    /\ allBooks # <<>>
    /\ answer = NoAnswer
    /\ scorerTrace = <<"llm">>
    /\ evalCalls = 1
    /\ fallbackCalls = 0
    /\ response = NoResponse
    /\ intent = parseQueryAdvanced(i.query)
    /\ faults = 0
    /\ catalog = bookCatalog
    /\ listing = NoListing
    /\ parked = idleRequest
    /\ openLibraryUrls = <<openLibraryParam(i.query)>>

ScorerNext == EvaluateWith(ScorerSucceeding, ScorerFailing)

ScorerSpec == ScorerInit /\ [][ScorerNext]_vars

(***************************************************************************)
(* The query interpreter alone: a search of all providers from the point   *)
(* where the catalog and Google Books have answered and the two searches   *)
(* of searchWeb have been started (the scraped platforms have failed, Open *)
(* Library is still to answer), for queries put together from a head, a    *)
(* separator and a tail.                                                   *)
(***************************************************************************)
QueryHeads == {"", "Osho", "osho speaks", "Vyasa", "books", "Gita by", "non"}
QuerySeparators == {",", ", ", " - ", ":", " | ", " "}
QueryTails ==
  {"", "meditation techniques", "gita yoga sutra", "yoga sutra book",
   "the booklist", "duality: zen", "gita and zen"}

InterpreterQueries ==
  {h \o sep \o t : h \in QueryHeads, sep \in QuerySeparators, t \in QueryTails}

InterpreterInit ==
  /\ pc = "fanout"
  /\ query \in InterpreterQueries
  /\ sources = {}
  /\ st = [a \in Adapters |->
             CASE a \in {"catalog", "google"} -> "ok"
               [] a \in {"web", "openLibrary"} -> "pending"
               [] OTHER -> "failed"]
  /\ out = [a \in Adapters |->
              CASE a = "catalog" -> catalogBooksOf(bookCatalog, {})
                [] a = "google" -> googleBooksOf(GoogleVolumes)
                [] OTHER -> <<>>]
  /\ allBooks = <<>>
  /\ answer = NoAnswer
  /\ scorerTrace = <<>>
  /\ evalCalls = 0
  /\ fallbackCalls = 0
  /\ response = NoResponse
  /\ intent = NoIntent
  /\ faults = 0
  /\ catalog = bookCatalog
  /\ listing = NoListing
  /\ parked = idleRequest
  /\ openLibraryUrls = <<openLibraryParam(query)>>

\* two records, the second one by an author the queries name
OshoSecondDocs ==
  << OpenLibraryDoc("/works/OL7W", "Zen Mind", <<"Suzuki">>, <<"Zen">>),
     OpenLibraryDoc("/works/OL8W", "Meditation", <<"Osho">>, <<"Meditation">>) >>

\* Open Library fails, or answers with docs, or answers with none
OpenLibraryAnswers == Outcomes(OpenLibraryPayloads \cup {<<>>, OshoSecondDocs})

InterpreterNext ==
  \/ \E o \in OpenLibraryAnswers : searchOpenLibrary(o)
  \/ searchWeb
  \/ PoolCandidates

InterpreterSpec == InterpreterInit /\ [][InterpreterNext]_vars

(***************************************************************************)
(* deduplicateBooks alone: searchWeb from the point where Open Library and *)
(* the scraped platforms have answered, for a query in which the           *)
(* interpreter finds neither author nor topic, so that the ranking returns *)
(* the deduplicated books as they are.                                     *)
(***************************************************************************)
MaxDedupBooks == 2

\* books that differ in case, in the place of a dash, or in the id only
DedupBooks ==
  { Book("openlibrary_OL1W", "Zen-Mind", "Suzuki", "first", "", <<>>, "web_search"),
    Book("openlibrary_OL2W", "Zen", "Mind-Suzuki", "second", "", <<>>, "web_search"),
    Book("amazon_B02", "ZEN", "mind-suzuki", "third", "", <<>>, "web_search"),
    Book("amazon_B03", "Zen", "", "fourth", "", <<>>, "web_search"),
    Book("amazon_B04", "Gita", "Vyasa", "fifth", "", <<>>, "web_search") }

DedupQuery == "xyzzy"

DedupInit ==
  /\ pc = "fanout"
  /\ query = DedupQuery
  /\ sources = {"web_search"}
  /\ st = [a \in Adapters |->
             CASE a \in {"catalog", "google"} -> "off"
               [] a = "web" -> "pending"
               [] OTHER -> "ok"]
  /\ \E ol \in SeqsUpTo(DedupBooks, MaxDedupBooks),
        am \in SeqsUpTo(DedupBooks, MaxDedupBooks) :
       out = [a \in Adapters |->
                CASE a = "openLibrary" -> ol
                  [] a = "amazon" -> am
                  [] OTHER -> <<>>]
  /\ allBooks = <<>>
  /\ answer = NoAnswer
  /\ scorerTrace = <<>>
  /\ evalCalls = 0
  /\ fallbackCalls = 0
  /\ response = NoResponse
  /\ intent = NoIntent
  /\ faults = 0
  /\ catalog = bookCatalog
  /\ listing = NoListing
  /\ parked = idleRequest
  /\ openLibraryUrls = <<openLibraryParam(query)>>

DedupNext == searchWeb

DedupSpec == DedupInit /\ [][DedupNext]_vars

(***************************************************************************)
(* GET /api/books (server/routes.ts) on the MemStorage of                  *)
(* server/storage.ts, whose Map holds the books of bookCatalog in the      *)
(* order of the catalog.                                                   *)
(***************************************************************************)
\* entries the catalog can hold, two of them from publishers beyond the
\* two of bookCatalog
CatalogEntries ==
  bookCatalog
    \o << Book("ch-veda", "Rig Veda", "Unknown", "Hymns", "Veda", <<"Hymns">>,
               "chaukhamba"),
          Book("ml-tantra", "Tantraloka", "Abhinavagupta", "Kashmir Shaivism",
               "Tantra", <<"Shaivism">>, "mlbd") >>

\* the catalogs made of some of them, in their order
ListCatalogs ==
  {SelectSeq(CatalogEntries, LAMBDA b : b.id \in ids) :
     ids \in SUBSET {CatalogEntries[i].id : i \in 1..Len(CatalogEntries)}}

\* req.query.source: absent, empty, a source platform, or another string
ListFilters == {<<>>, <<"">>, <<"publisher">>} \cup {<<x>> : x \in bookSources}

\* the sources for which the route calls getBooksBySource
listedSources == {"exotic_india", "gita_press", "chaukhamba", "archive_org"}

getAllBooks(books) == books

getBooksBySource(books, source) == SelectSeq(books, LAMBDA book : book.source = source)

ListCandidates(f) ==
  /\ listing' =
       [status |-> 200, source |-> f,
        books |-> IF f # <<>> /\ f[1] # "" /\ f[1] \in listedSources
                  THEN getBooksBySource(catalog, f[1])
                  ELSE getAllBooks(catalog)]
  /\ UNCHANGED <<pc, query, sources, st, out, allBooks, answer, scorerTrace,
                 evalCalls, fallbackCalls, response, intent, faults, catalog,
                 parked, openLibraryUrls>>

ListInit ==
  /\ pc = "idle"
  /\ query = ""
  /\ sources = {}
  /\ st = [a \in Adapters |-> "off"]
  /\ out = [a \in Adapters |-> <<>>]
  /\ allBooks = <<>>
  /\ answer = NoAnswer
  /\ scorerTrace = <<>>
  /\ evalCalls = 0
  /\ fallbackCalls = 0
  /\ response = NoResponse
  /\ intent = NoIntent
  /\ faults = 0
  /\ catalog \in ListCatalogs
  /\ listing = NoListing
  /\ parked = idleRequest
  /\ openLibraryUrls = <<>>

ListNext == \E f \in ListFilters : ListCandidates(f)

ListSpec == ListInit /\ [][ListNext]_vars

(***************************************************************************)
(* Two requests in flight.  Node runs one continuation at a time, so the   *)
(* requests interleave at their awaits: every action above is one          *)
(* continuation, and between two of them the event loop may turn to the    *)
(* other request.  The variables of the request that is not running are    *)
(* kept in parked; the catalog and the log are shared.                     *)
(***************************************************************************)
Yield ==
  /\ parked' = request
  /\ pc' = parked.pc
  /\ query' = parked.query
  /\ sources' = parked.sources
  /\ st' = parked.st
  /\ out' = parked.out
  /\ allBooks' = parked.allBooks
  /\ answer' = parked.answer
  /\ scorerTrace' = parked.scorerTrace
  /\ evalCalls' = parked.evalCalls
  /\ fallbackCalls' = parked.fallbackCalls
  /\ response' = parked.response
  /\ intent' = parked.intent
  /\ openLibraryUrls' = parked.openLibraryUrls
  /\ UNCHANGED <<faults, catalog, listing>>

PairQueries == {"Vyasa gita yoga"}
PairSelections == {{}, {"gita_press"}}

\* the web providers are down
PairFailures == {[kind |-> "neterr", payload |-> <<>>]}

PairSucceeding ==
  {[kind |-> "text", text |-> <<"json">>, matches |-> ml] :
     ml \in {<<>>,
             <<[bookId |-> "gp-gita", relevanceScore |-> 90,
                aiDescription |-> "relevant", isGrounded |-> TRUE]>>,
             <<[bookId |-> "google_g1", relevanceScore |-> 70,
                aiDescription |-> "relevant", isGrounded |-> TRUE],
               [bookId |-> "gp-gita", relevanceScore |-> 90,
                aiDescription |-> "relevant", isGrounded |-> TRUE]>>}}

PairFailing == {[kind |-> "error", text |-> <<>>, matches |-> <<>>]}

PairNext ==
  \/ \E q \in PairQueries, srcs \in PairSelections : PostSearch(q, srcs)
  \/ \E o \in Outcomes(GooglePayloads) : searchGoogleBooks(o)
  \/ \E o \in PairFailures : searchOpenLibrary(o)
  \/ \E o \in PairFailures : searchAmazonBooks(o)
  \/ \E o \in PairFailures : searchGoodreadsBooks(o)
  \/ \E o \in PairFailures : searchProjectGutenberg(o)
  \/ searchWeb
  \/ PoolCandidates
  \/ EvaluateWith(PairSucceeding, PairFailing)
  \/ Yield

PairSpec == Init /\ [][PairNext]_vars

(***************************************************************************)
(* Properties                                                              *)
(***************************************************************************)
\* the request has been answered with a result list
answered == pc = "responded" /\ response.status = 200

\* the promises that stand for one provider each
Providers == {"catalog"} \cup Fetches

\* C1: on the LLM path no result stems from a match that the evaluator
\* reported as not grounded or scored below 50
C1_UngroundedOrLowAbsent ==
  (answered /\ evalCalls = 1 /\ fallbackCalls = 0) =>
    \A j \in 1..Len(answer.matches) :
      (~answer.matches[j].isGrounded \/ answer.matches[j].relevanceScore < 50) =>
        ~\E i \in 1..Len(response.results) :
            /\ response.results[i].book.id = answer.matches[j].bookId
            /\ response.results[i].relevanceScore = answer.matches[j].relevanceScore

\* C2: every result of a response, from the LLM path or from the keyword
\* fallback, has a relevanceScore of 50 or more and so is never weak
C2_EveryResultAtLeast50 ==
  answered =>
    \A i \in 1..Len(response.results) :
      /\ response.results[i].relevanceScore >= 50
      /\ response.results[i].confidenceTier # "weak"

\* C3 as stated: every malformed evaluator output, JSON wrapped in prose
\* among them, and every transport error ends in the keyword fallback
C3_EveryMalformedFallsBack ==
  (pc = "responded" /\ answer.kind # "none"
     /\ (answer.kind = "error" \/ answer.text # <<"json">>)) =>
    (response.status = 200 /\ fallbackCalls = 1)

\* C3: an evaluator output that holds no complete JSON object with a
\* matches list, and a transport error, end in the keyword fallback over the
\* pool with status 200; a complete JSON object wrapped in brace-free prose
\* or alone in a code fence is scored on the LLM path, without the fallback
C3_UnparseableFallsBack ==
  (pc = "responded" /\ answer.kind # "none") =>
    LET text == answer.text
        jsons == {i \in 1..Len(text) : text[i] = "json"}
        proseAround(S) == \A i \in (1..Len(text)) \ S : text[i] = "prose"
        inProse == Cardinality(jsons) = 1 /\ Len(text) > 1 /\ proseAround(jsons)
        inFence == \E i \in jsons :
                     /\ i > 1 /\ i < Len(text)
                     /\ text[i - 1] = "fence" /\ text[i + 1] = "fence"
                     /\ proseAround({i - 1, i, i + 1})
    IN /\ response.status = 200
       /\ (answer.kind = "error" \/ jsons = {}) =>
            /\ fallbackCalls = 1
            /\ \A i \in 1..Len(response.results) :
                 \E k \in 1..Len(allBooks) : response.results[i].book = allBooks[k]
       /\ (answer.kind = "text" /\ (inProse \/ inFence)) =>
            /\ fallbackCalls = 0
            /\ \A i \in 1..Len(response.results) :
                 \E j \in 1..Len(answer.matches) :
                   response.results[i].book.id = answer.matches[j].bookId

\* a truncated answer has been answered from the fallback
C3_Witness ==
  /\ answered /\ answer.kind = "text" /\ answer.text = <<"prose", "truncated">>
  /\ fallbackCalls = 1 /\ Len(response.results) > 0

\* C4: the scorer goes Attempting-LLM -> Success or Attempting-LLM ->
\* Failed -> Fallback -> Success; the evaluator is called at most once, the
\* fallback at most once and only after the evaluator has failed
C4_ScorerPaths ==
  /\ scorerTrace \in {<<>>, <<"llm">>, <<"llm", "success">>,
                      <<"llm", "failed", "fallback", "success">>}
  /\ evalCalls <= 1
  /\ fallbackCalls <= 1
  /\ fallbackCalls = 1 =>
       /\ evalCalls = 1
       /\ answer.kind = "error" \/ (answer.kind = "text" /\ ~evaluationSucceeds(answer))
       /\ scorerTrace = <<"llm", "failed", "fallback", "success">>
  /\ pc = "evaluating" => (scorerTrace = <<"llm">> /\ evalCalls = 1)
  /\ (pc = "responded" /\ scorerTrace # <<>>) =>
       scorerTrace[Len(scorerTrace)] = "success"

\* the evaluator's call has thrown and the fallback has answered
C4_Witness ==
  /\ answered /\ answer.kind = "error"
  /\ scorerTrace = <<"llm", "failed", "fallback", "success">>

\* C5: no two results of a response have the same title and author,
\* compared without regard to case
C5_NoDuplicateTitleAuthor ==
  answered =>
    \A i, j \in 1..Len(response.results) :
      i < j =>
        ~(/\ toLowerCase(response.results[i].book.title)
               = toLowerCase(response.results[j].book.title)
          /\ toLowerCase(response.results[i].book.author)
               = toLowerCase(response.results[j].book.author))

C7_AllFailEmpty ==
  (pc = "responded" /\ response.status # 400
     /\ \A a \in Providers : out[a] = <<>>) =>
    response = [status |-> 200, results |-> <<>>, totalResults |-> 0]

\* every internet provider of a request without catalog has failed
C7_Witness ==
  /\ answered /\ response.results = <<>> /\ response.totalResults = 0
  /\ st["catalog"] = "off"
  /\ \A a \in Fetches : st[a] = "failed"

\* C8: when the evaluator is called, the fallback runs or a result list is
\* sent, every promise of the fan-out is off or has resolved: none is
\* pending, waiting to be issued, or without answer
C8_ScoringAfterAllAdapters ==
  (pc = "evaluating" \/ evalCalls > 0 \/ fallbackCalls > 0 \/ answered) =>
    \A a \in Adapters : st[a] \in {"off", "ok", "failed"}

\* the evaluator is called after all seven promises, one of them failed
C8_Witness ==
  /\ pc = "evaluating" /\ scorerTrace = <<"llm">>
  /\ st["catalog"] = "ok" /\ st["google"] = "ok" /\ st["web"] = "ok"
  /\ st["goodreads"] = "failed" /\ st["gutenberg"] = "ok"

\* C9: every request that has started its searches is answered at last,
\* also when a provider never answers
C9_EverySearchCompletes == (pc = "fanout") ~> (pc = "responded")

\* C10: the confidenceTier of every result is strong from 90, good from
\* 70 to 89, potential from 50 to 69 and weak below 50
C10_TierFromScore ==
  answered =>
    \A i \in 1..Len(response.results) :
      LET score == response.results[i].relevanceScore
          tier  == response.results[i].confidenceTier
      IN /\ score >= 90 => tier = "strong"
         /\ (70 <= score /\ score < 90) => tier = "good"
         /\ (50 <= score /\ score < 70) => tier = "potential"
         /\ score < 50 => tier = "weak"

\* a strong and a good result on the LLM path
C10_Witness ==
  /\ answered /\ fallbackCalls = 0
  /\ \E i \in 1..Len(response.results) :
       response.results[i].relevanceScore = 90
         /\ response.results[i].confidenceTier = "strong"
  /\ \E i \in 1..Len(response.results) :
       response.results[i].relevanceScore = 70
         /\ response.results[i].confidenceTier = "good"

\* the results are in descending order of relevanceScore
descending ==
  \A i, j \in 1..Len(response.results) :
    i < j => response.results[i].relevanceScore >= response.results[j].relevanceScore

admittedCount ==
  IF fallbackCalls = 1
  THEN Cardinality({k \in 1..Len(allBooks) :
                      scoredAboveZero(fallbackResult(allBooks[k],
                                                     split(toLowerCase(query))))})
  ELSE Cardinality({j \in 1..Len(answer.matches) :
                      /\ admitted(answer.matches[j])
                      /\ bookMapGet(allBooks, answer.matches[j].bookId) # <<>>})

C14_InvalidRejectedQuietly ==
  pc = "responded" =>
    IF Len(query) < 1 \/ Len(query) > 500
    THEN /\ response.status = 400
         /\ \A a \in Adapters : st[a] = "off" /\ out[a] = <<>>
         /\ evalCalls = 0 /\ fallbackCalls = 0
         /\ faults = 0
    ELSE response.status # 400

\* the texts a provider supplied for the records an adapter made of its
\* answer: every field of a catalog book; title, author and subjects of an
\* Open Library doc; title and author of a scraped book (its description
\* and its keyTopics are written by the adapter)
suppliedTexts ==
  LET booksOf(a) == {out[a][i] : i \in 1..Len(out[a])}
      topicsOf(b) == {b.keyTopics[k] : k \in 1..Len(b.keyTopics)}
  IN UNION {{b.title, b.author, b.description, b.category} \cup topicsOf(b) :
              b \in booksOf("catalog")}
     \cup UNION {{b.title, b.author, b.category} \cup topicsOf(b) :
                   b \in booksOf("openLibrary")}
     \cup UNION {{b.title, b.author} : b \in UNION {booksOf(a) : a \in Scraped}}

\* no word of the query occurs in any of them
foreignQuery ==
  LET words == split(toLowerCase(query))
  IN \A k \in 1..Len(words) :
       words[k] # "" =>
         \A t \in suppliedTexts : ~includes(toLowerCase(t), words[k])

\* C15: a query none of whose words occurs in what the providers supplied
\* gets an empty result list, on the LLM path (when the evaluator admits no
\* match) and on the fallback path
C15_ForeignQueryFindsNothing ==
  (/\ answered
   /\ foreignQuery
   /\ \A j \in 1..Len(answer.matches) : ~admitted(answer.matches[j])) =>
    response.totalResults = 0

\* searchWeb has called parseQueryAdvanced
interpreted == st["web"] \in {"ok", "failed"}

\* the query without the filler words book, books and booklist
cleanedQuery == trim(removeWords(query, <<"books", "book", "booklist">>))

\* the pieces of s between commas, dashes, colons and pipes
RECURSIVE segmentsOf(_, _)
segmentsOf(s, cur) ==
  IF s = "" THEN <<cur>>
  ELSE IF charAt(s, 1) \in {",", "-", ":", "|"}
       THEN <<cur>> \o segmentsOf(SubSeq(s, 2, Len(s)), "")
       ELSE segmentsOf(SubSeq(s, 2, Len(s)), cur \o charAt(s, 1))

\* the segments of the cleaned query, trimmed, the empty ones left out
querySegments ==
  LET raw == segmentsOf(cleanedQuery, "")
  IN SelectSeq([i \in 1..Len(raw) |-> trim(raw[i])], nonEmpty)

\* C16: a query that splits into two or more non-empty segments gets the
\* first segment as author and the others, joined, as title, whatever the
\* later heuristics would make of it; "Osho, meditation techniques" gets
\* author Osho and title meditation techniques
C16_SeparatorSplitWins ==
  interpreted =>
    /\ Len(querySegments) >= 2 =>
         /\ intent.author = <<querySegments[1]>>
         /\ intent.title = join(Tail(querySegments), " ")
    /\ query = "Osho, meditation techniques" =>
         intent.author = <<"Osho">> /\ intent.title = "meditation techniques"

\* the query of the scenario has been interpreted: the known-author
\* heuristic would have made "Osho, meditation" its author
C16_Witness ==
  /\ interpreted
  /\ query = "Osho, meditation techniques"
  /\ Len(querySegments) = 2
  /\ intent.author = <<"Osho">>

\* the words of the cleaned query
queryWords == SelectSeq(split(cleanedQuery), nonEmpty)

\* the first word that is "by" is neither the first nor the last word
byFires ==
  \E k \in 2..(Len(queryWords) - 1) :
    /\ toLowerCase(queryWords[k]) = "by"
    /\ \A j \in 1..(k - 1) : toLowerCase(queryWords[j]) # "by"

\* three words or more, the first letters being a known author's name
knownAuthorFires ==
  /\ Len(queryWords) >= 3
  /\ \E k \in 1..Len(knownAuthors) :
       startsWith(toLowerCase(cleanedQuery), knownAuthors[k])

\* three words or more, and a series indicator whose first occurrence has
\* a space before it, with more before that space than one separator
seriesFires ==
  /\ Len(queryWords) >= 3
  /\ \E k \in 1..Len(seriesIndicators) :
       LET lower == toLowerCase(cleanedQuery)
           idx   == indexOf(lower, seriesIndicators[k])
           sp    == lastSpaceUpTo(lower, idx)
           raw   == SubSeq(cleanedQuery, 1, sp - 1)
       IN /\ idx > 0
          /\ sp > 0
          /\ trim(IF raw # "" /\ charAt(raw, Len(raw)) \in {",", "-", ":", "|"}
                  THEN SubSeq(raw, 1, Len(raw) - 1) ELSE raw) # ""

\* C17: the interpreter returns an intent for every query; its topics are
\* the vocabulary keywords that occur in the lowercased cleaned query,
\* whichever branch returns; when neither the separator split nor a
\* heuristic fires, the author is unset and the title is the cleaned query
C17_IntentForEveryQuery ==
  interpreted =>
    /\ DOMAIN intent = {"author", "title", "topics"}
    /\ st["web"] = "ok"
    /\ intent.topics =
         SelectSeq(topicKeywords,
                   LAMBDA t : includes(toLowerCase(cleanedQuery), t))
    /\ (Len(querySegments) < 2 /\ ~byFires /\ ~knownAuthorFires /\ ~seriesFires) =>
         intent.author = <<>> /\ intent.title = cleanedQuery

\* no branch has fired for a query that names a topic and has nothing but
\* a separator before its series indicator
C17_Witness ==
  /\ interpreted
  /\ query = ", gita and zen"
  /\ ~seriesFires
  /\ intent = [author |-> <<>>, title |-> ", gita and zen", topics |-> <<"zen">>]

\* C18: the listing for a filter that names a source platform holds the
\* catalog's books of that source and no others, the listing without a
\* filter holds the whole catalog, and no listing changes the catalog
C18_ListingHonoursFilter ==
  /\ [](listing.status = 200 =>
          /\ (listing.source # <<>> /\ listing.source[1] \in bookSources) =>
               /\ \A i \in 1..Len(listing.books) :
                    listing.books[i].source = listing.source[1]
               /\ \A k \in 1..Len(catalog) :
                    catalog[k].source = listing.source[1] =>
                      \E i \in 1..Len(listing.books) : listing.books[i] = catalog[k]
          /\ listing.source = <<>> => listing.books = catalog)
  /\ [][catalog' = catalog]_vars

\* C20: every result of a response has a relevanceScore from 0 to 100,
\* whatever score the evaluator gave its match
C20_ScoreInRange ==
  answered =>
    \A i \in 1..Len(response.results) :
      /\ response.results[i].relevanceScore >= 0
      /\ response.results[i].relevanceScore <= 100

\* request r has been answered with a result list
answeredOf(r) == r.pc = "responded" /\ r.response.status = 200

\* what request r returns when it runs alone, on the catalog as it is
\* shipped and on the provider and evaluator answers r got
soloResults(r) ==
  LET pool == poolOf(IF searchCatalog(r.sources)
                     THEN catalogBooksOf(bookCatalog, r.sources) ELSE <<>>,
                     r.out["google"], r.out["web"])
  IN IF pool = <<>> THEN <<>>
     ELSE IF evaluationSucceeds(r.answer) THEN aiResults(r.answer.matches, pool)
     ELSE fallbackSearch(r.query, pool)

\* C19: however two requests interleave, each returns the results it
\* would return alone on the same provider and evaluator answers, and the
\* catalog stays as it was
C19_RequestsIsolated ==
  /\ catalog = bookCatalog
  /\ \A r \in {request, parked} :
       answeredOf(r) => r.response.results = soloResults(r)

\* two requests with different sources and different evaluator answers
\* have both been answered, one by the evaluator and one by the fallback
C19_Witness ==
  /\ answeredOf(request) /\ answeredOf(parked)
  /\ request.sources # parked.sources
  /\ request.fallbackCalls = 1 /\ parked.fallbackCalls = 0
  /\ request.response.results # <<>> /\ parked.response.results # <<>>
  /\ request.response.results # parked.response.results

\* C12: two runs with the same query and sources, the same provider
\* answers and the same evaluator answer return the same results, in the
\* same order, with the same scores, tiers and groundedness flags
C12_SameInputsSameResults ==
  (/\ answeredOf(request) /\ answeredOf(parked)
   /\ request.query = parked.query
   /\ request.sources = parked.sources
   /\ \A a \in Fetches : request.out[a] = parked.out[a]
   /\ request.answer = parked.answer) =>
    request.response = parked.response

\* two runs with the same inputs have both returned results
C12_Witness ==
  /\ answeredOf(request) /\ answeredOf(parked)
  /\ request.query = parked.query
  /\ request.sources = parked.sources
  /\ \A a \in Fetches : request.out[a] = parked.out[a]
  /\ request.out["google"] # <<>>
  /\ request.answer = parked.answer
  /\ Len(request.response.results) >= 2

\* C21: on the LLM path a result is grounded exactly when its book comes
\* from the curated catalog: the results for Google Books and web search
\* books are not grounded
C21_GroundedIffCatalog ==
  (answered /\ fallbackCalls = 0) =>
    \A i \in 1..Len(response.results) :
      response.results[i].isGrounded
        = (response.results[i].book.source \notin {"google_books", "web_search"})

textFields(book) ==
  <<book.title, book.author, book.description, book.category>> \o book.keyTopics

occursIn(w, text) == includes(toLowerCase(text), w)

\* what one query word adds to a candidate's keyword score
wordWeight(w, book) ==
  IF Len(w) >= 3 /\ \E i \in 1..Len(textFields(book)) : occursIn(w, textFields(book)[i])
  THEN 20 + (IF occursIn(w, book.title) THEN 15 ELSE 0)
          + (IF occursIn(w, book.category) THEN 10 ELSE 0)
  ELSE 0

RECURSIVE weightSum(_, _, _)
weightSum(ws, k, book) ==
  IF k = 0 THEN 0 ELSE wordWeight(ws[k], book) + weightSum(ws, k - 1, book)

keywordScore(book) ==
  LET ws == split(toLowerCase(query)) IN min(95, weightSum(ws, Len(ws), book))

\* C23: the score of a fallback result is the sum, over the query words of
\* three letters or more found in the candidate's text, of 20, plus 15 for a
\* word found in the title and 10 for one found in the category, and is at
\* most 95
C23_FallbackScoreIsWeightSum ==
  (answered /\ fallbackCalls = 1) =>
    \A i \in 1..Len(response.results) :
      /\ response.results[i].relevanceScore = keywordScore(response.results[i].book)
      /\ response.results[i].relevanceScore <= 95

\* a fallback result whose sum passed the ceiling, for a query with a short
\* word that occurs in the candidate's text
C23_Witness ==
  /\ answered /\ fallbackCalls = 1
  /\ \E i \in 1..Len(response.results) :
       LET book == response.results[i].book
           ws == split(toLowerCase(query))
       IN /\ weightSum(ws, Len(ws), book) > 95
          /\ response.results[i].relevanceScore = 95
          /\ \E k \in 1..Len(ws) :
               /\ Len(ws[k]) < 3
               /\ \E f \in 1..Len(textFields(book)) : occursIn(ws[k], textFields(book)[f])

indexIn(books, b) ==
  CHOOSE k \in 1..Len(books) :
    books[k] = b /\ \A m \in 1..(k - 1) : books[m] # b

\* the candidates of the pool that adapter a returned are in the order in
\* which a returned them
keepsOrder(a) ==
  \A i, j \in 1..Len(allBooks) :
    (/\ i < j
     /\ \E k \in 1..Len(out[a]) : out[a][k] = allBooks[i]
     /\ \E k \in 1..Len(out[a]) : out[a][k] = allBooks[j])
      => indexIn(out[a], allBooks[i]) < indexIn(out[a], allBooks[j])

\* web search before Google Books before the catalog
providerRank(book) ==
  CASE book.source = "web_search" -> 1
    [] book.source = "google_books" -> 2
    [] OTHER -> 3

webFirstCatalogLast ==
  \A i, j \in 1..Len(allBooks) :
    i < j => providerRank(allBooks[i]) <= providerRank(allBooks[j])

\* C25: the pool lists the web search candidates, then those of Google
\* Books, then those of the catalog, and the candidates of each provider
\* are in the order in which the provider returned them
C25_PoolKeepsProviderOrder ==
  allBooks # <<>> => (webFirstCatalogLast /\ \A a \in Providers : keepsOrder(a))

\* the web search candidates in the order searchWeb met them
webSeen == deduplicateBooks(out["openLibrary"] \o googleSearchBooksOf(st, out))

\* the web search candidates of the pool are ranked: the higher rank score
\* first, and equal rank scores in the order searchWeb met them
webRanked ==
  \A i, j \in 1..Len(allBooks) :
    (i < j /\ providerRank(allBooks[i]) = 1 /\ providerRank(allBooks[j]) = 1) =>
      LET ranks == intent.author # <<>> \/ intent.topics # <<>>
          ri == IF ranks THEN rankScore(allBooks[i], intent.author, intent.topics) ELSE 0
          rj == IF ranks THEN rankScore(allBooks[j], intent.author, intent.topics) ELSE 0
      IN \/ ri > rj
         \/ ri = rj /\ indexIn(webSeen, allBooks[i]) < indexIn(webSeen, allBooks[j])

\* C25, amended: the pool lists the web search candidates, then those of
\* Google Books, then those of the catalog; Google Books and catalog
\* candidates are in the order their provider returned them, and the web
\* search candidates are in the order of searchWeb's ranking
C25_PoolOrderWithRanking ==
  allBooks # <<>> =>
    /\ webFirstCatalogLast
    /\ keepsOrder("google")
    /\ keepsOrder("catalog")
    /\ webRanked

\* a pool of all three providers in which the ranking moved a record of Open
\* Library ahead of the one Open Library returned before it
C25_Witness ==
  /\ \E i, j, k \in 1..Len(allBooks) :
       /\ providerRank(allBooks[i]) = 1
       /\ providerRank(allBooks[j]) = 2
       /\ providerRank(allBooks[k]) = 3
  /\ ~keepsOrder("openLibrary")

\* what searchWeb hands to deduplicateBooks
dedupInput == out["openLibrary"] \o googleSearchBooksOf(st, out)

sameTitleAndAuthor(a, b) ==
  /\ toLowerCase(a.title) = toLowerCase(b.title)
  /\ toLowerCase(a.author) = toLowerCase(b.author)

\* the books of a list that no earlier book of the list equals in title and
\* author, in the order of the list
RECURSIVE firstOfEachPair(_, _)
firstOfEachPair(books, n) ==
  IF n = 0 THEN <<>>
  ELSE firstOfEachPair(books, n - 1)
       \o (IF \E j \in 1..(n - 1) : sameTitleAndAuthor(books[j], books[n])
           THEN <<>> ELSE <<books[n]>>)

\* C26: deduplication returns, in their order and unchanged, exactly the
\* books that no earlier book equals in title and author ignoring case, and
\* deduplicating its output again changes nothing
C26_DedupByTitleAndAuthor ==
  (st["web"] = "ok" /\ query = DedupQuery) =>
    /\ out["web"] = firstOfEachPair(dedupInput, Len(dedupInput))
    /\ deduplicateBooks(out["web"]) = out["web"]

\* C27: the book of every result, on the LLM path and on the fallback
\* path, equals a candidate of the pool in every field
C27_ResultBookIsPooledBook ==
  answered =>
    \A i \in 1..Len(response.results) :
      \E k \in 1..Len(allBooks) : response.results[i].book = allBooks[k]

\* the fields of a book other than the evaluator's description of it
agreeButAiDescription(a, b) ==
  /\ DOMAIN a = DOMAIN b
  /\ \A f \in DOMAIN a \ {"aiDescription"} : a[f] = b[f]

\* C27, amended: the book of a fallback result equals a candidate of the
\* pool in every field; the book of an LLM result equals one in every field
\* but aiDescription, which holds the evaluator's description of the match
C27_ResultBookButAiDescription ==
  answered =>
    \A i \in 1..Len(response.results) :
      \E k \in 1..Len(allBooks) :
        IF fallbackCalls = 1
        THEN response.results[i].book = allBooks[k]
        ELSE /\ agreeButAiDescription(response.results[i].book, allBooks[k])
             /\ \E m \in 1..Len(answer.matches) :
                  /\ answer.matches[m].bookId = allBooks[k].id
                  /\ response.results[i].book.aiDescription
                       = <<answer.matches[m].aiDescription>>

\* an LLM result whose book has a description by the evaluator that the
\* pooled candidate does not have
C27_Witness ==
  /\ answered /\ fallbackCalls = 0
  /\ \E i \in 1..Len(response.results), k \in 1..Len(allBooks) :
       /\ allBooks[k].id = response.results[i].book.id
       /\ allBooks[k].aiDescription = <<>>
       /\ response.results[i].book.aiDescription # <<>>

\* the known author's name the lowercased cleaned query starts with
leadingKnownAuthor ==
  knownAuthors[CHOOSE k \in 1..Len(knownAuthors) :
                 startsWith(toLowerCase(cleanedQuery), knownAuthors[k])]

\* C28: for a query without separator and without a by pattern that starts
\* with a known author's name, the author is the leading words that make
\* up that name, one word for a name like osho, and the title is the words
\* after them
C28_KnownAuthorTakesItsWords ==
  (interpreted /\ Len(querySegments) < 2 /\ ~byFires /\ knownAuthorFires) =>
    LET n == Len(SelectSeq(split(leadingKnownAuthor), nonEmpty))
    IN /\ intent.author = <<join(SubSeq(queryWords, 1, n), " ")>>
       /\ intent.title = join(SubSeq(queryWords, n + 1, Len(queryWords)), " ")

\* the ids of the pooled candidates
pooledIds == {allBooks[k].id : k \in 1..Len(allBooks)}

\* C29: every result of the LLM path stems from an admitted match that
\* names a candidate of the pool and carries that candidate; a match that
\* names no candidate of the pool gives no result
C29_ResultsNamePooledCandidates ==
  (answered /\ fallbackCalls = 0) =>
    /\ \A i \in 1..Len(response.results) :
         /\ response.results[i].book.id \in pooledIds
         /\ \E m \in 1..Len(answer.matches) :
              /\ answer.matches[m].bookId = response.results[i].book.id
              /\ answer.matches[m].relevanceScore = response.results[i].relevanceScore
         /\ \E k \in 1..Len(allBooks) :
              /\ allBooks[k].id = response.results[i].book.id
              /\ allBooks[k].title = response.results[i].book.title
              /\ allBooks[k].author = response.results[i].book.author
              /\ allBooks[k].source = response.results[i].book.source
    /\ Len(response.results)
         = Cardinality({m \in 1..Len(answer.matches) :
                          /\ answer.matches[m].relevanceScore >= 50
                          /\ answer.matches[m].bookId \in pooledIds})

\* an answer with an admitted match for an invented id and one for a pooled
\* candidate: one result
C29_Witness ==
  /\ answered /\ fallbackCalls = 0
  /\ Len(response.results) = 1
  /\ \E m \in 1..Len(answer.matches) :
       /\ answer.matches[m].bookId \notin pooledIds
       /\ answer.matches[m].relevanceScore >= 50

\* the promises of a provider have been started
queried(a) == st[a] # "off"

\* the adapters behind web search
WebAdapters == {"web", "openLibrary", "amazon", "goodreads", "gutenberg"}

\* C30: with a selection, the catalog is queried exactly when a selected
\* source is neither google_books nor web_search, Google Books exactly when
\* google_books is selected and web search exactly when web_search is
\* selected, and the book of every result has a selected source; without a
\* selection all three are queried
C30_OnlySelectedProviders ==
  (pc # "idle" /\ response.status # 400) =>
    /\ sources = {} => \A a \in Adapters : queried(a)
    /\ sources # {} =>
         /\ queried("catalog")
              <=> (\E x \in sources : x \notin {"google_books", "web_search"})
         /\ queried("google") <=> "google_books" \in sources
         /\ \A a \in WebAdapters : queried(a) <=> "web_search" \in sources
         /\ answered =>
              \A i \in 1..Len(response.results) :
                response.results[i].book.source \in sources

\* a search of one catalog publisher that returned a book and queried
\* neither Google Books nor the web
C30_Witness ==
  /\ answered
  /\ sources = {"gita_press"}
  /\ response.results # <<>>
  /\ ~queried("google")
  /\ ~queried("web")

====
